---- MODULE Spec2Model ----
(***************************************************************************)
(* Lifetime model of the cuSPARSE handle cache of the oneMKL-style backend *)
(* in cuSPARSE/spmv_csr/onemkl:                                            *)
(*   - CusparseScopedContextHandler (constructor, destructor, get_handle), *)
(*   - the thread_local cusparse_handle<pi_context> cache and its          *)
(*     destructor,                                                         *)
(*   - ContextCallback, the extended deleter the SYCL runtime invokes when *)
(*     a context is released.                                              *)
(* Host threads, the runtime's context release and the vendor library's    *)
(* success/failure results are the environment.                            *)
(***************************************************************************)
EXTENDS Integers, FiniteSets, Sequences, TLC

\* Number of cusparseCreate calls explored (handles are numbered 1..MaxHandles).
MaxHandles == 3

\* The longest argument list overflow_check is called with.
MaxArgs == 2

Threads == {"t1", "t2"}

\* Native CUDA contexts (the keys of the cache) and the SYCL/PI contexts that
\* wrap them; several PI contexts may refer to the same primary CUDA context.
Contexts == {"k1", "k2"}
PiContexts == {"p1", "p2", "p3"}
Streams == {"s1", "s2"}

\* A sycl::queue: its PI context and its native stream.
Queues == [ctx : PiContexts, stream : Streams]

NoCtx == "nullctx"
NoPi == "nopi"
NoStream == "nullstream"
Null == 0

Handles == 1..MaxHandles
Cells == 1..MaxHandles

\* sycl::get_native<backend::ext_oneapi_cuda>(context)
Native(p) == CASE p = "p1" -> "k1" [] p = "p2" -> "k1" [] p = "p3" -> "k2"

\* sycl::get_native<backend::ext_oneapi_cuda>(queue)
get_stream(queue) == queue.stream

VARIABLES
    pc,         \* per thread: idle, scoped, hit, create, synced, unwind, drain, exited
    sc,         \* per thread: the scoped handler's placedContext_, original_, needToRecover_
    cur,        \* per thread: the active CUDA driver context (cuCtxGetCurrent)
    mapper,     \* per thread: cusparse_handle_mapper_, key -> cell pointer (or Null)
    loc,        \* per thread: locals of get_handle / of the cache destructor
    ret,        \* per thread: outcome of the last operation
    cellState,  \* per cell: none, alloc, freed
    cellVal,    \* per cell: the std::atomic<cusparseHandle_t> value
    cellInit,   \* per cell: the handle it was constructed with, and by whom
    nCreated,   \* number of handles cusparseCreate has returned
    hStream,    \* per handle: the stream bound to it
    hCtx,       \* per handle: the driver context active when it was created
    hDestroy,   \* per handle: number of cusparseDestroy invocations
    cb,         \* per cell: state of the ContextCallback registered for it
    td,         \* per cell: state of the cache destructor's iteration over it
    pState,     \* per PI context: live, pinned (a reference leaked), released
    proc,       \* process-wide: running/aborted, memory errors
    chk         \* the overflow_check call in progress: arguments, position, outcome

vars == <<pc, sc, cur, mapper, loc, ret, cellState, cellVal, cellInit, nCreated,
          hStream, hCtx, hDestroy, cb, td, pState, proc, chk>>

NoHandler == [placed |-> NoPi, original |-> NoCtx, need |-> FALSE]
NoLoc == [queue |-> [ctx |-> NoPi, stream |-> NoStream], handle |-> Null,
          stale |-> Null, key |-> NoCtx, got |-> Null]
NoRet == [op |-> "none", threw |-> FALSE, handle |-> Null, path |-> "none",
          queue |-> [ctx |-> NoPi, stream |-> NoStream], purged |-> Null]
NoCb == [state |-> "none", ctx |-> NoPi, got |-> Null]
NoTd == [state |-> "none", got |-> Null]
NoInit == [handle |-> Null, owner |-> "nobody", key |-> NoCtx]
EmptyMap == [k \in {} |-> Null]
NoChk == [args |-> <<>>, pos |-> 1, out |-> "idle"]

\* The state after start-up in which the threads of T have yet to run (the
\* others never touch the backend) and the PI contexts of P exist.
StartFrom(T, P, A) ==
    /\ pc = [t \in Threads |-> IF t \in T THEN "idle" ELSE "exited"]
    /\ sc = [t \in Threads |-> NoHandler]
    /\ cur = [t \in Threads |-> IF t \in A THEN "k2" ELSE NoCtx]
    /\ mapper = [t \in Threads |-> EmptyMap]
    /\ loc = [t \in Threads |-> NoLoc]
    /\ ret = [t \in Threads |-> NoRet]
    /\ cellState = [c \in Cells |-> "none"]
    /\ cellVal = [c \in Cells |-> Null]
    /\ cellInit = [c \in Cells |-> NoInit]
    /\ nCreated = 0
    /\ hStream = [h \in Handles |-> NoStream]
    /\ hCtx = [h \in Handles |-> NoCtx]
    /\ hDestroy = [h \in Handles \cup {Null} |-> 0]
    /\ cb = [c \in Cells |-> NoCb]
    /\ td = [c \in Cells |-> NoTd]
    /\ pState = [p \in PiContexts |-> IF p \in P THEN "live" ELSE "released"]
    /\ proc = [aborted |-> FALSE, badDeref |-> FALSE, doubleFree |-> FALSE]

\* The same with no CUDA context current on any thread and no overflow_check
\* under way.
Start(T, P) == StartFrom(T, P, {}) /\ chk = NoChk

\* One host thread working on every context.
Init == Start({"t1"}, PiContexts)

\* Two host threads working on the queues of one context; the application has
\* made another CUDA context current on the second thread.
InitMT == StartFrom(Threads, {"p1"}, {"t2"}) /\ chk = NoChk

\* One host thread running host tasks on two CUDA contexts.
InitTask == Start({"t1"}, {"p1", "p3"})

Running == ~proc.aborted

cellVars == <<cellState, cellVal, cellInit, cb, td>>
handleVars == <<nCreated, hStream, hCtx, hDestroy>>

Min(a, b) == IF a < b THEN a ELSE b

(***************************************************************************)
(* The vendor library and the atomic cell.                                 *)
(***************************************************************************)

\* A handle is live until cusparseDestroy has been invoked on it.
Live(h) == h \in 1..nCreated /\ hDestroy[h] = 0

\* cusparseDestroy(handle): counts the invocation (also one on a null handle);
\* the handle's stream binding is gone afterwards.
cusparseDestroy(h) ==
    /\ hDestroy' = [hDestroy EXCEPT ![h] = Min(@ + 1, 2)]
    /\ hStream' = [x \in Handles |-> IF x = h THEN NoStream ELSE hStream[x]]

\* cusparseGetStream(handle, &currentStreamId): the values it may store.  On a
\* destroyed handle the call reads released memory and any value may come back.
cusparseGetStream(h) ==
    IF Live(h) THEN {hStream[h]} ELSE Streams \cup {NoStream}

\* cusparseSetStream(handle, streamId) returning success: the new bindings.
cusparseSetStream(h, s) ==
    IF Live(h) THEN [hStream EXCEPT ![h] = s] ELSE hStream

\* The values a load or exchange of cell c may observe: the stored value, or
\* anything once the cell has been deleted.
CellRead(c) ==
    IF cellState[c] = "alloc" THEN {cellVal[c]} ELSE {Null} \cup Handles

\* A plain load in place of the exchange: the cell keeps its value.
exchange_Load(c) == cellVal

\* ptr->exchange(nullptr): the cells afterwards.
exchange(c) == [cellVal EXCEPT ![c] = Null]

\* Process-wide flags after dereferencing cell c.
Deref(c) ==
    IF cellState[c] = "alloc" THEN proc ELSE [proc EXCEPT !.badDeref = TRUE]

\* delete of cell c.
DeleteCell(c) ==
    /\ cellState' = [cellState EXCEPT ![c] = "freed"]
    /\ proc' = IF cellState[c] = "alloc" THEN proc
               ELSE [proc EXCEPT !.doubleFree = TRUE]

\* The next cell new std::atomic<cusparseHandle_t>(handle) returns.
NewCell == Cardinality({c \in Cells : cellState[c] # "none"}) + 1

(***************************************************************************)
(* std::unordered_map operations used on cusparse_handle_mapper_.          *)
(***************************************************************************)

\* An erase that leaves the entry in place.
Erase_Keep(m, k) == m

\* erase(it)
Erase(m, k) == [x \in DOMAIN m \ {k} |-> m[x]]

\* insert(make_pair(k, c)): no effect when the key is present.
Insert(m, k, c) ==
    IF k \in DOMAIN m THEN m
    ELSE [x \in DOMAIN m \cup {k} |-> IF x = k THEN c ELSE m[x]]

(***************************************************************************)
(* CusparseScopedContextHandler: constructor and destructor.               *)
(***************************************************************************)

\* A handler that restores original_ even when it was null.
NeedToRecover_Always(original) == TRUE

\* needToRecover_ = !(original_ == nullptr)
NeedToRecover(original) == ~(original = NoCtx)

Threw(op) == [NoRet EXCEPT !.op = op, !.threw = TRUE]
Done(op) == [NoRet EXCEPT !.op = op]
DoneOn(op, p) == [NoRet EXCEPT !.op = op, !.queue.ctx = p]

\* A CUDA_ERROR_FUNC throws inside the constructor: the object is never
\* constructed, its destructor never runs and placedContext_ is never deleted.
ConstructThrows(t, queue) ==
    /\ pState' = [pState EXCEPT ![queue.ctx] = "pinned"]
    /\ ret' = [ret EXCEPT ![t] = Threw("ctor")]
    /\ UNCHANGED <<pc, sc, cur>>

Construct(t, queue) ==
    /\ Running
    /\ pc[t] = "idle"
    /\ pState[queue.ctx] # "released"
    /\ LET desired == Native(queue.ctx)
           original == cur[t]
       IN \/ \* cuCtxGetCurrent fails
             ConstructThrows(t, queue)
          \/ \* original_ == desired
             /\ original = desired
             /\ sc' = [sc EXCEPT ![t] = [placed |-> queue.ctx, original |-> original,
                                         need |-> FALSE]]
             /\ pc' = [pc EXCEPT ![t] = "scoped"]
             /\ ret' = [ret EXCEPT ![t] = Done("ctor")]
             /\ UNCHANGED <<cur, pState>>
          \/ \* original_ != desired, cuCtxSetCurrent fails
             /\ original # desired
             /\ ConstructThrows(t, queue)
          \/ \* original_ != desired, cuCtxSetCurrent succeeds
             /\ original # desired
             /\ cur' = [cur EXCEPT ![t] = desired]
             /\ sc' = [sc EXCEPT ![t] = [placed |-> queue.ctx, original |-> original,
                                         need |-> NeedToRecover(original)]]
             /\ pc' = [pc EXCEPT ![t] = "scoped"]
             /\ ret' = [ret EXCEPT ![t] = Done("ctor")]
             /\ UNCHANGED pState
    /\ UNCHANGED <<mapper, loc, cellVars, handleVars, proc>>
    /\ UNCHANGED chk

\* The body of ~CusparseScopedContextHandler.
DestructBody(t) ==
    /\ Running
    /\ \/ \* needToRecover_, cuCtxSetCurrent(original_) succeeds
          /\ sc[t].need
          /\ cur' = [cur EXCEPT ![t] = sc[t].original]
          /\ ret' = [ret EXCEPT ![t] = DoneOn("dtor", sc[t].placed)]
          /\ UNCHANGED pState
       \/ \* needToRecover_, cuCtxSetCurrent fails: delete placedContext_ is skipped
          /\ sc[t].need
          /\ pState' = [pState EXCEPT ![sc[t].placed] = "pinned"]
          /\ ret' = [ret EXCEPT ![t] = Threw("dtor")]
          /\ UNCHANGED cur
       \/ /\ ~sc[t].need
          /\ ret' = [ret EXCEPT ![t] = DoneOn("dtor", sc[t].placed)]
          /\ UNCHANGED <<cur, pState>>
    /\ sc' = [sc EXCEPT ![t] = NoHandler]
    /\ pc' = [pc EXCEPT ![t] = "idle"]
    /\ UNCHANGED <<mapper, loc, cellVars, handleVars, proc>>
    /\ UNCHANGED chk

\* The handler leaves scope while no get_handle call is in progress.
Destruct(t) ==
    /\ pc[t] = "scoped"
    /\ DestructBody(t)

(***************************************************************************)
(* CusparseScopedContextHandler::get_handle.                               *)
(***************************************************************************)

\* One cache shared by every thread: handle_helper without thread_local.
CacheOf_Static(t) == "t1"

\* handle_helper is thread_local (lines 38-39): get_handle running on thread t
\* works on thread t's own cusparse_handle_mapper_.
CacheOf(t) == t

\* A key that ignores the handler's context.
Key_Fixed(t) == "k1"

\* piPlacedContext_: the key get_handle uses for thread t.
Key(t) == Native(sc[t].placed)

\* Threads that are between the lookup and cusparseCreate.
Creating == {u \in Threads : pc[u] = "create"}

Returned(queue, h, path, stale) ==
    [op |-> "get_handle", threw |-> FALSE, handle |-> h, path |-> path, queue |-> queue,
     purged |-> stale]

\* The test of line 100 inverted.
Loaded_Inverted(handle) == handle = Null

\* if (handle != nullptr) after the load of the cell (line 100).
Loaded(handle) == handle # Null

\* find(piPlacedContext_) found nothing, or the entry was erased: fall through
\* to the creation path.
ToCreate(t, queue, m, stale) ==
    /\ nCreated + Cardinality(Creating) < MaxHandles
    /\ mapper' = [mapper EXCEPT ![CacheOf(t)] = m]
    /\ loc' = [loc EXCEPT ![t] = [NoLoc EXCEPT !.queue = queue, !.key = Key(t),
                                               !.stale = stale]]
    /\ pc' = [pc EXCEPT ![t] = "create"]

\* Lines 89-112 up to the load of the cell: find, the null checks, the erase of
\* a stale entry.
GH_Lookup(t, queue) ==
    /\ Running
    /\ pc[t] = "scoped"
    /\ queue.ctx = sc[t].placed
    /\ LET k == Key(t)
           m == mapper[CacheOf(t)]
       IN IF k \notin DOMAIN m
          THEN ToCreate(t, queue, m, Null) /\ UNCHANGED proc
          ELSE IF m[k] = Null
          THEN ToCreate(t, queue, Erase(m, k), Null) /\ UNCHANGED proc
          ELSE \E handle \in CellRead(m[k]) :
                  /\ proc' = Deref(m[k])
                  /\ IF Loaded(handle)
                     THEN /\ loc' = [loc EXCEPT ![t] = [NoLoc EXCEPT !.queue = queue,
                                                        !.key = k, !.handle = handle]]
                          /\ pc' = [pc EXCEPT ![t] = "hit"]
                          /\ UNCHANGED mapper
                     ELSE ToCreate(t, queue, Erase(m, k), m[k])
    /\ ret' = [ret EXCEPT ![t] = NoRet]
    /\ UNCHANGED <<sc, cur, cellVars, handleVars, pState>>
    /\ UNCHANGED chk

\* Lines 101-106: the cache-hit path after the load.
GH_Hit(t) ==
    /\ Running
    /\ pc[t] = "hit"
    /\ LET handle == loc[t].handle
           streamId == get_stream(loc[t].queue)
       IN \/ \* cusparseGetStream fails
             /\ ret' = [ret EXCEPT ![t] = Threw("get_handle")]
             /\ UNCHANGED hStream
          \/ \E currentStreamId \in cusparseGetStream(handle) :
                \/ /\ currentStreamId = streamId
                   /\ ret' = [ret EXCEPT ![t] = Returned(loc[t].queue, handle, "hit", Null)]
                   /\ UNCHANGED hStream
                \/ \* cusparseSetStream fails
                   /\ currentStreamId # streamId
                   /\ ret' = [ret EXCEPT ![t] = Threw("get_handle")]
                   /\ UNCHANGED hStream
                \/ /\ currentStreamId # streamId
                   /\ hStream' = cusparseSetStream(handle, streamId)
                   /\ ret' = [ret EXCEPT ![t] = Returned(loc[t].queue, handle, "hit", Null)]
    /\ pc' = [pc EXCEPT ![t] = "scoped"]
    /\ loc' = [loc EXCEPT ![t] = NoLoc]
    /\ UNCHANGED <<sc, cur, mapper, cellVars, nCreated, hCtx, hDestroy, pState, proc>>
    /\ UNCHANGED chk

\* The creation path with the insert of line 119 moved before cusparseSetStream.
GH_Create_InsertFirst(t) ==
    /\ Running
    /\ pc[t] = "create"
    /\ LET handle == nCreated + 1
           streamId == get_stream(loc[t].queue)
           k == loc[t].key
           cell == NewCell
           m == Insert(mapper[CacheOf(t)], k, cell)
       IN \/ \* cusparseCreate fails
             /\ ret' = [ret EXCEPT ![t] = Threw("get_handle")]
             /\ UNCHANGED <<mapper, cellVars, handleVars>>
          \/ \* cusparseCreate succeeds, cusparseSetStream fails
             /\ nCreated' = handle
             /\ hCtx' = [hCtx EXCEPT ![handle] = cur[t]]
             /\ cellState' = [cellState EXCEPT ![cell] = "alloc"]
             /\ cellVal' = [cellVal EXCEPT ![cell] = handle]
             /\ cellInit' = [cellInit EXCEPT ![cell] = [handle |-> handle, owner |-> t,
                                                         key |-> k]]
             /\ mapper' = [mapper EXCEPT ![CacheOf(t)] = m]
             /\ ret' = [ret EXCEPT ![t] = Threw("get_handle")]
             /\ UNCHANGED <<cb, td, hStream, hDestroy>>
          \/ \* both succeed: insert the new cell, register ContextCallback on it
             /\ nCreated' = handle
             /\ hCtx' = [hCtx EXCEPT ![handle] = cur[t]]
             /\ hStream' = [hStream EXCEPT ![handle] = streamId]
             /\ cellState' = [cellState EXCEPT ![cell] = "alloc"]
             /\ cellVal' = [cellVal EXCEPT ![cell] = handle]
             /\ cellInit' = [cellInit EXCEPT ![cell] = [handle |-> handle, owner |-> t,
                                                         key |-> k]]
             /\ UNCHANGED td
             /\ mapper' = [mapper EXCEPT ![CacheOf(t)] = m]
             /\ cb' = [cb EXCEPT ![m[k]] = [state |-> "registered",
                                            ctx |-> sc[t].placed, got |-> Null]]
             /\ ret' = [ret EXCEPT ![t] = Returned(loc[t].queue, handle, "create", loc[t].stale)]
             /\ UNCHANGED hDestroy
    /\ pc' = [pc EXCEPT ![t] = "scoped"]
    /\ loc' = [loc EXCEPT ![t] = NoLoc]
    /\ UNCHANGED <<sc, cur, pState, proc>>
    /\ UNCHANGED chk

\* Lines 114-125: the creation path.
GH_Create(t) ==
    /\ Running
    /\ pc[t] = "create"
    /\ LET handle == nCreated + 1
           streamId == get_stream(loc[t].queue)
           k == loc[t].key
           cell == NewCell
           m == Insert(mapper[CacheOf(t)], k, cell)
       IN \/ \* cusparseCreate fails
             /\ ret' = [ret EXCEPT ![t] = Threw("get_handle")]
             /\ UNCHANGED <<mapper, cellVars, handleVars>>
          \/ \* cusparseCreate succeeds, cusparseSetStream fails
             /\ nCreated' = handle
             /\ hCtx' = [hCtx EXCEPT ![handle] = cur[t]]
             /\ ret' = [ret EXCEPT ![t] = Threw("get_handle")]
             /\ UNCHANGED <<mapper, cellVars, hStream, hDestroy>>
          \/ \* both succeed: insert the new cell, register ContextCallback on it
             /\ nCreated' = handle
             /\ hCtx' = [hCtx EXCEPT ![handle] = cur[t]]
             /\ hStream' = [hStream EXCEPT ![handle] = streamId]
             /\ cellState' = [cellState EXCEPT ![cell] = "alloc"]
             /\ cellVal' = [cellVal EXCEPT ![cell] = handle]
             /\ cellInit' = [cellInit EXCEPT ![cell] = [handle |-> handle, owner |-> t,
                                                         key |-> k]]
             /\ UNCHANGED td
             /\ mapper' = [mapper EXCEPT ![CacheOf(t)] = m]
             /\ cb' = [cb EXCEPT ![m[k]] = [state |-> "registered",
                                            ctx |-> sc[t].placed, got |-> Null]]
             /\ ret' = [ret EXCEPT ![t] = Returned(loc[t].queue, handle, "create", loc[t].stale)]
             /\ UNCHANGED hDestroy
    /\ pc' = [pc EXCEPT ![t] = "scoped"]
    /\ loc' = [loc EXCEPT ![t] = NoLoc]
    /\ UNCHANGED <<sc, cur, pState, proc>>
    /\ UNCHANGED chk

(***************************************************************************)
(* cusparse_handle::~cusparse_handle, run when the owning thread exits.    *)
(***************************************************************************)

\* The thread ends with no scoped handler alive; its thread_local cache is
\* about to be destroyed.
ThreadExit(t) ==
    /\ Running
    /\ pc[t] = "idle"
    /\ pc' = [pc EXCEPT ![t] = "drain"]
    /\ ret' = [ret EXCEPT ![t] = NoRet]
    /\ UNCHANGED <<sc, cur, mapper, loc, cellVars, handleVars, pState, proc>>
    /\ UNCHANGED chk

\* The destructor destroying whatever the exchange returned.
TD_Claimed_Always(handle) == TRUE

\* if (handle != nullptr) after the destructor's exchange (line 38).
TD_Claimed(handle) == handle # Null

\* One iteration of the loop up to the exchange (lines 34-37).  Entries whose
\* pointer is already null are skipped.
TD_Exchange(t, k) ==
    /\ Running
    /\ pc[t] = "drain"
    /\ loc[t].key = NoCtx
    /\ k \in DOMAIN mapper[t]
    /\ mapper[t][k] # Null
    /\ LET cell == mapper[t][k]
       IN \E handle \in CellRead(cell) :
             /\ proc' = Deref(cell)
             /\ cellVal' = exchange(cell)
             /\ td' = [td EXCEPT ![cell] = [state |-> "exchanged", got |-> handle]]
             /\ loc' = [loc EXCEPT ![t] = [NoLoc EXCEPT !.key = k, !.got = handle]]
    /\ UNCHANGED <<pc, sc, cur, mapper, ret, cellState, cellInit, cb, handleVars, pState>>
    /\ UNCHANGED chk

\* The rest of the iteration (lines 38-49).  An exception leaving the
\* destructor of a thread_local object ends the process (std::terminate).
TD_Finish(t) ==
    /\ Running
    /\ pc[t] = "drain"
    /\ loc[t].key # NoCtx
    /\ LET k == loc[t].key
           handle == loc[t].got
           cell == mapper[t][k]
       IN IF TD_Claimed(handle)
          THEN /\ cusparseDestroy(handle)
               /\ \/ /\ mapper' = [mapper EXCEPT ![t][k] = Null]
                     /\ td' = [td EXCEPT ![cell].state = "done"]
                     /\ UNCHANGED proc
                  \/ \* cusparseDestroy fails
                     /\ proc' = [proc EXCEPT !.aborted = TRUE]
                     /\ UNCHANGED <<mapper, td>>
               /\ UNCHANGED cellState
          ELSE /\ DeleteCell(cell)
               /\ mapper' = [mapper EXCEPT ![t][k] = Null]
               /\ td' = [td EXCEPT ![cell].state = "done"]
               /\ UNCHANGED <<hStream, hDestroy>>
    /\ loc' = [loc EXCEPT ![t] = NoLoc]
    /\ UNCHANGED <<pc, sc, cur, ret, cellVal, cellInit, cb, nCreated, hCtx, pState>>
    /\ UNCHANGED chk

\* cusparse_handle_mapper_.clear() after the loop (line 52).
TD_Clear(t) ==
    /\ Running
    /\ pc[t] = "drain"
    /\ loc[t].key = NoCtx
    /\ \A k \in DOMAIN mapper[t] : mapper[t][k] = Null
    /\ mapper' = [mapper EXCEPT ![t] = EmptyMap]
    /\ pc' = [pc EXCEPT ![t] = "exited"]
    /\ UNCHANGED <<sc, cur, loc, ret, cellVars, handleVars, pState, proc>>
    /\ UNCHANGED chk

(***************************************************************************)
(* The runtime releasing a context, and ContextCallback.                   *)
(***************************************************************************)

\* The last reference to PI context p is dropped.  A scoped handler holds a
\* reference through placedContext_; a leaked placedContext_ pins p for ever.
ReleaseContext(p) ==
    /\ Running
    /\ pState[p] = "live"
    /\ \A t \in Threads : sc[t].placed # p
    /\ pState' = [pState EXCEPT ![p] = "released"]
    /\ UNCHANGED <<pc, sc, cur, mapper, loc, ret, cellVars, handleVars, proc>>
    /\ UNCHANGED chk

\* ContextCallback(userData) up to the exchange (lines 70-74); the runtime
\* calls it once for each deleter registered on the released context.
CB_Exchange(c) ==
    /\ Running
    /\ cb[c].state = "registered"
    /\ pState[cb[c].ctx] = "released"
    /\ \E handle \in CellRead(c) :
          /\ proc' = Deref(c)
          /\ cellVal' = exchange(c)
          /\ cb' = [cb EXCEPT ![c].state = "exchanged", ![c].got = handle]
    /\ UNCHANGED <<pc, sc, cur, mapper, loc, ret, cellState, cellInit, td, handleVars, pState>>
    /\ UNCHANGED chk

\* A callback that also removes the cell's entry from its creator's map.
CB_Finish_Purge(c) ==
    /\ Running
    /\ cb[c].state = "exchanged"
    /\ IF cb[c].got # Null
       THEN /\ cusparseDestroy(cb[c].got)
            /\ UNCHANGED <<cellState, proc>>
       ELSE /\ DeleteCell(c)
            /\ UNCHANGED <<hStream, hDestroy>>
    /\ cb' = [cb EXCEPT ![c].state = "done"]
    /\ mapper' = [mapper EXCEPT ![cellInit[c].owner] = Erase(@, cellInit[c].key)]
    /\ UNCHANGED <<pc, sc, cur, loc, ret, cellVal, cellInit, td, nCreated, hCtx, pState>>
    /\ UNCHANGED chk

\* A callback that deletes the cell whatever the exchange returned.
CB_Finish_AlwaysDelete(c) ==
    /\ Running
    /\ cb[c].state = "exchanged"
    /\ IF cb[c].got # Null
       THEN /\ cusparseDestroy(cb[c].got)
            /\ DeleteCell(c)
       ELSE /\ DeleteCell(c)
            /\ UNCHANGED <<hStream, hDestroy>>
    /\ cb' = [cb EXCEPT ![c].state = "done"]
    /\ UNCHANGED <<pc, sc, cur, mapper, loc, ret, cellVal, cellInit, td, nCreated, hCtx, pState>>
    /\ UNCHANGED chk

\* ContextCallback after the exchange (lines 75-85).
CB_Finish(c) ==
    /\ Running
    /\ cb[c].state = "exchanged"
    /\ IF cb[c].got # Null
       THEN /\ cusparseDestroy(cb[c].got)
            /\ UNCHANGED <<cellState, proc>>
       ELSE /\ DeleteCell(c)
            /\ UNCHANGED <<hStream, hDestroy>>
    /\ cb' = [cb EXCEPT ![c].state = "done"]
    /\ UNCHANGED <<pc, sc, cur, mapper, loc, ret, cellVal, cellInit, td, nCreated, hCtx, pState>>
    /\ UNCHANGED chk

(***************************************************************************)
(* host_task_internal: the lambda run as a SYCL host task.  It constructs  *)
(* the handler (Construct), calls f(sc), in which the caller's function    *)
(* uses get_handle, then sc.wait_stream(queue), and destroys sc at the end *)
(* of the lambda or while an exception unwinds it.                         *)
(***************************************************************************)

\* CusparseScopedContextHandler::wait_stream(queue): waits for the work on the
\* queue's stream, or reports a stream-synchronisation error.
wait_stream(t, ok) ==
    ret' = [ret EXCEPT ![t] = IF ok THEN DoneOn("wait_stream", sc[t].placed)
                              ELSE Threw("wait_stream")]

\* f(sc) throws (line 64): the lambda is left without reaching wait_stream.
HT_FnThrows(t) ==
    /\ Running
    /\ pc[t] = "scoped"
    /\ ret[t].op # "wait_stream"
    /\ pc' = [pc EXCEPT ![t] = "unwind"]
    /\ ret' = [ret EXCEPT ![t] = Threw("f")]
    /\ UNCHANGED <<sc, cur, mapper, loc, cellVars, handleVars, pState, proc>>
    /\ UNCHANGED chk

\* f(sc) has returned; sc.wait_stream(queue) (line 65).
HT_WaitStream(t) ==
    /\ Running
    /\ pc[t] = "scoped"
    /\ \/ /\ wait_stream(t, TRUE)
          /\ pc' = [pc EXCEPT ![t] = "synced"]
       \/ /\ wait_stream(t, FALSE)
          /\ pc' = [pc EXCEPT ![t] = "unwind"]
    /\ UNCHANGED <<sc, cur, mapper, loc, cellVars, handleVars, pState, proc>>
    /\ UNCHANGED chk

\* A lambda that destroys sc as soon as f(sc) has returned.
HT_End_NoWait(t) ==
    /\ pc[t] \in {"scoped", "synced", "unwind"}
    /\ DestructBody(t)

\* sc is destroyed at the end of the lambda (line 66), or by the unwinding of
\* an exception of f or of wait_stream when its destructor does not throw.
HT_End(t) ==
    /\ pc[t] \in {"synced", "unwind"}
    /\ DestructBody(t)
    /\ pc[t] = "unwind" => ~ret'[t].threw

\* ~CusparseScopedContextHandler throws while an exception is unwinding the
\* lambda: std::terminate.
HT_Terminate(t) ==
    /\ Running
    /\ pc[t] = "unwind"
    /\ sc[t].need
    /\ proc' = [proc EXCEPT !.aborted = TRUE]
    /\ UNCHANGED <<pc, sc, cur, mapper, loc, ret, cellVars, handleVars, pState>>
    /\ UNCHANGED chk

(***************************************************************************)
(* overflow_check (cusparse_helper.hpp).  A std::int64_t is kept as its    *)
(* four 16-bit limbs in two's complement, least significant limb first.    *)
(***************************************************************************)

INT64_MIN == <<0, 0, 0, 32768>>
INT64_MAX == <<65535, 65535, 65535, 32767>>

\* The index values the calls are made with: 0, 1, -1, 2^31 - 1, 2^31,
\* 2^31 + 1, 2^32, -(2^31 - 1), -2^31, -2^31 - 1 and the two extremes.
Indices ==
    { <<0, 0, 0, 0>>, <<1, 0, 0, 0>>, <<65535, 65535, 65535, 65535>>,
      <<65535, 32767, 0, 0>>, <<0, 32768, 0, 0>>, <<1, 32768, 0, 0>>,
      <<0, 0, 1, 0>>,
      <<1, 32768, 65535, 65535>>, <<0, 32768, 65535, 65535>>,
      <<65535, 32767, 65535, 65535>>,
      INT64_MAX, INT64_MIN }

ArgLists == UNION {[1..n -> Indices] : n \in 1..MaxArgs}

\* index < 0
Negative(x) == x[4] >= 32768

\* -index in 64-bit two's complement arithmetic.
Negate(x) ==
    LET a1 == (65535 - x[1]) + 1
        a2 == (65535 - x[2]) + (a1 \div 65536)
        a3 == (65535 - x[3]) + (a2 \div 65536)
        a4 == (65535 - x[4]) + (a3 \div 65536)
    IN <<a1 % 65536, a2 % 65536, a3 % 65536, a4 % 65536>>

\* std::abs(index) for an index whose magnitude is representable.
Abs(x) == IF Negative(x) THEN Negate(x) ELSE x

\* The comparison written with > in place of >=.
Above1LL31(a) ==
    /\ ~Negative(a)
    /\ \/ a[4] > 0 \/ a[3] > 0 \/ a[2] > 32768
       \/ a[2] = 32768 /\ a[1] > 0

\* a >= (1LL << 31), a signed 64-bit comparison (line 62).
AtLeast1LL31(a) ==
    /\ ~Negative(a)
    /\ (a[4] > 0 \/ a[3] > 0 \/ a[2] >= 32768)

\* The outcomes of std::abs(index) >= (1LL << 31).  std::abs(INT64_MIN) is
\* undefined (the result is not representable): the test may go either way.
Overflows(index) ==
    IF index = INT64_MIN THEN BOOLEAN ELSE {AtLeast1LL31(Abs(index))}

\* Overflow<Index, T...>::check on the next argument (lines 61-69): throw, or
\* recurse on the remaining arguments.
OC_Check ==
    /\ chk.out = "running"
    /\ chk.pos <= Len(chk.args)
    /\ \E over \in Overflows(chk.args[chk.pos]) :
          \/ /\ over
             /\ chk' = [chk EXCEPT !.out = "threw"]
          \/ /\ ~over
             /\ chk' = [chk EXCEPT !.pos = @ + 1]
    /\ UNCHANGED <<pc, sc, cur, mapper, loc, ret, cellVars, handleVars, pState, proc>>

\* Overflow<>::check with no argument left (lines 54-57): overflow_check
\* returns.
OC_Return ==
    /\ chk.out = "running"
    /\ chk.pos > Len(chk.args)
    /\ chk' = [chk EXCEPT !.out = "returned"]
    /\ UNCHANGED <<pc, sc, cur, mapper, loc, ret, cellVars, handleVars, pState, proc>>

Next ==
    \/ \E t \in Threads, queue \in Queues : Construct(t, queue)
    \/ \E t \in Threads : Destruct(t)
    \/ \E t \in Threads, queue \in Queues : GH_Lookup(t, queue)
    \/ \E t \in Threads : GH_Hit(t)
    \/ \E t \in Threads : GH_Create(t)
    \/ \E t \in Threads : ThreadExit(t)
    \/ \E t \in Threads, k \in Contexts : TD_Exchange(t, k)
    \/ \E t \in Threads : TD_Finish(t)
    \/ \E t \in Threads : TD_Clear(t)
    \/ \E p \in PiContexts : ReleaseContext(p)
    \/ \E c \in Cells : CB_Exchange(c)
    \/ \E c \in Cells : CB_Finish(c)

Spec == Init /\ [][Next]_vars

SpecMT == InitMT /\ [][Next]_vars

\* The handler used only through host_task_internal.
NextTask ==
    \/ \E t \in Threads, queue \in Queues : Construct(t, queue)
    \/ \E t \in Threads, queue \in Queues : GH_Lookup(t, queue)
    \/ \E t \in Threads : GH_Hit(t)
    \/ \E t \in Threads : GH_Create(t)
    \/ \E t \in Threads : HT_FnThrows(t)
    \/ \E t \in Threads : HT_WaitStream(t)
    \/ \E t \in Threads : HT_End(t)
    \/ \E t \in Threads : HT_Terminate(t)
    \/ \E t \in Threads : ThreadExit(t)
    \/ \E t \in Threads, k \in Contexts : TD_Exchange(t, k)
    \/ \E t \in Threads : TD_Finish(t)
    \/ \E t \in Threads : TD_Clear(t)
    \/ \E p \in PiContexts : ReleaseContext(p)
    \/ \E c \in Cells : CB_Exchange(c)
    \/ \E c \in Cells : CB_Finish(c)

SpecTask == InitTask /\ [][NextTask]_vars

\* A call overflow_check(index, indices...) made before the backend is used.
InitOverflow ==
    /\ StartFrom({"t1"}, PiContexts, {})
    /\ chk \in [args : ArgLists, pos : {1}, out : {"running"}]

NextOverflow == OC_Check \/ OC_Return

SpecOverflow == InitOverflow /\ [][NextOverflow]_vars

(***************************************************************************)
(* Properties.                                                             *)
(***************************************************************************)

Fired(c) == cb[c].state \in {"exchanged", "done"}
Installed == {c \in Cells : cellState[c] # "none"}

\* C1: for every cell get_handle created, cusparseDestroy is never invoked
\* twice on the cell's handle; it has been invoked exactly once as soon as the
\* party whose exchange obtained the handle (the cache destructor or
\* ContextCallback) has finished its step, and as soon as both have finished.
C1_DestroyedExactlyOnce ==
    \A c \in Installed :
        LET h == cellInit[c].handle
        IN /\ hDestroy[h] <= 1
           /\ (cb[c].state = "done" /\ cb[c].got # Null) => hDestroy[h] = 1
           /\ (td[c].state = "done" /\ td[c].got # Null) => hDestroy[h] = 1
           /\ (cb[c].state = "done" /\ td[c].state = "done") => hDestroy[h] = 1
           /\ ~(cb[c].got # Null /\ td[c].got # Null)

\* Both parties ran to completion on one cell; the destructor's exchange won.
C1_Witness ==
    \E c \in Installed :
        /\ cb[c].state = "done" /\ td[c].state = "done"
        /\ td[c].got # Null /\ cb[c].got = Null
        /\ hDestroy[cellInit[c].handle] = 1

\* A step in which get_handle returns a handle to thread t.
Returns(t) ==
    /\ pc[t] \in {"hit", "create"}
    /\ pc'[t] = "scoped"
    /\ ~ret'[t].threw

\* C2: at the moment get_handle returns a handle, cusparseDestroy has not been
\* invoked on that handle, whatever ContextCallback did in the meantime.
C2_ReturnedHandleLive ==
    [][\A t \in Threads : Returns(t) => hDestroy'[ret'[t].handle] = 0]_vars

\* C3: a thread's cache holds at most one handle per CUDA context: the cells
\* that thread t installed under key k and that still hold a handle number at
\* most one, that one is the cell the map has under k, and get_handle reaches
\* its insert only with k absent from the map.
C3_OneHandlePerContext ==
    \A t \in Threads, k \in Contexts :
        LET held == {c \in Installed : /\ cellInit[c].owner = t
                                        /\ cellInit[c].key = k
                                        /\ cellState[c] = "alloc"
                                        /\ cellVal[c] # Null}
        IN /\ Cardinality(held) <= 1
           /\ \A c \in held : k \in DOMAIN mapper[t] /\ mapper[t][k] = c
           /\ (pc[t] = "create" /\ loc[t].key = k) => k \notin DOMAIN mapper[t]

\* get_handle found the entry under its key stale, erased it and has installed
\* a second cell under the same key.
C3_Witness ==
    \E t \in Threads, c \in Installed :
        /\ ret[t].op = "get_handle" /\ ret[t].purged = c
        /\ cellInit[c].key \in DOMAIN mapper[t]
        /\ mapper[t][cellInit[c].key] # c
        /\ cellVal[mapper[t][cellInit[c].key]] = ret[t].handle

\* C4: whenever get_handle(queue) returns a handle, on either path, the stream
\* bound to that handle is the queue's native stream.
C4_StreamIsQueueStream ==
    [][\A t \in Threads :
          Returns(t) => hStream'[ret'[t].handle] = get_stream(ret'[t].queue)]_vars

\* C5: a scoped handler destroyed without error leaves the thread's active
\* context equal to the context that was active just before construction when
\* that was non-empty, and equal to the queue's context when it was empty; the
\* constructor records the prior context and activates the queue's.
C5_ContextRestored ==
    [][\A t \in Threads :
          /\ (pc[t] = "idle" /\ pc'[t] = "scoped")
                => /\ sc'[t].original = cur[t]
                   /\ cur'[t] = Native(sc'[t].placed)
          /\ (pc[t] = "scoped" /\ pc'[t] = "idle" /\ ~ret'[t].threw)
                => cur'[t] = IF sc[t].original # NoCtx THEN sc[t].original
                             ELSE Native(sc[t].placed)]_vars

\* A handler on one context was destroyed and the thread is back on another
\* context, the one that was active before.
C5_Witness ==
    \E t \in Threads :
        /\ ret[t].op = "dtor" /\ ~ret[t].threw
        /\ cur[t] # NoCtx
        /\ cur[t] # Native(ret[t].queue.ctx)

\* C6: while the callback of the cell under K has not fired and the cache is
\* alive, get_handle for K takes the cache-hit path and returns the handle the
\* cell was created with, the one the first call returned, and invokes no
\* cusparseCreate.
C6_SameHandle ==
    [][\A t \in Threads :
          LET k == Key(t)
              c == mapper[t][k]
          IN /\ (pc[t] = "scoped" /\ pc'[t] \in {"hit", "create"}
                    /\ k \in DOMAIN mapper[t] /\ ~Fired(c))
                   => /\ pc'[t] = "hit"
                      /\ loc'[t].handle = cellInit[c].handle
                      /\ nCreated' = nCreated
             /\ (pc[t] = "hit" /\ Returns(t) /\ ~Fired(c))
                   => /\ ret'[t].handle = cellInit[c].handle
                      /\ nCreated' = nCreated
                      /\ mapper'[t] = mapper[t]
             /\ (pc[t] = "create" /\ Returns(t))
                   => ret'[t].handle = cellInit'[mapper'[t][k]].handle]_vars

\* A second call returned, from the cache, the handle of a cell whose callback
\* has not fired.
C6_Witness ==
    \E t \in Threads :
        /\ ret[t].op = "get_handle" /\ ret[t].path = "hit"
        /\ Key(t) \in DOMAIN mapper[t]
        /\ ~Fired(mapper[t][Key(t)])
        /\ ret[t].handle = cellInit[mapper[t][Key(t)]].handle

\* C7: when the callback of the cell under K has fired while the cache still
\* holds the entry, the next get_handle for K erases the entry and goes to the
\* creation path; when that path returns, the handle is a new live one, held
\* by a new cell installed under K with a callback registered on it.
C7_StalePurged ==
    [][\A t \in Threads :
          LET k == Key(t)
          IN /\ (pc[t] = "scoped" /\ pc'[t] \in {"hit", "create"}
                    /\ k \in DOMAIN mapper[t] /\ Fired(mapper[t][k]))
                   => /\ pc'[t] = "create"
                      /\ k \notin DOMAIN mapper'[t]
                      /\ loc'[t].stale = mapper[t][k]
             /\ (pc[t] = "create" /\ Returns(t) /\ loc[t].stale # Null)
                   => /\ ret'[t].handle # cellInit[loc[t].stale].handle
                      /\ hDestroy'[ret'[t].handle] = 0
                      /\ k \in DOMAIN mapper'[t]
                      /\ mapper'[t][k] # loc[t].stale
                      /\ cellState[mapper'[t][k]] = "none"
                      /\ cellVal'[mapper'[t][k]] = ret'[t].handle
                      /\ cb'[mapper'[t][k]].state = "registered"]_vars

\* get_handle has returned a fresh handle after purging the entry of a cell
\* whose handle the callback destroyed.
C7_Witness ==
    \E t \in Threads :
        /\ ret[t].op = "get_handle" /\ ret[t].path = "create"
        /\ ret[t].purged # Null
        /\ cb[ret[t].purged].state = "done"
        /\ hDestroy[cellInit[ret[t].purged].handle] = 1
        /\ hDestroy[ret[t].handle] = 0

\* C8: when the cache destructor has taken a cell's handle before the cell's
\* callback fires, the callback's exchange observes null, and the callback
\* deletes the cell without invoking cusparseDestroy.
C8_LateCallbackDeletes ==
    [][\A c \in Installed :
          /\ (cb[c].state = "registered" /\ cb'[c].state = "exchanged"
                    /\ td[c].state # "none")
                   => cb'[c].got = Null
          /\ (cb[c].state = "exchanged" /\ cb'[c].state = "done" /\ td[c].got # Null)
                   => /\ cellState[c] = "alloc" /\ cellState'[c] = "freed"
                      /\ hDestroy' = hDestroy]_vars

\* The owning thread has exited, its destructor destroyed the handle, and the
\* callback that fired afterwards deleted the cell.
C8_Witness ==
    \E c \in Installed :
        /\ pc[cellInit[c].owner] = "exited"
        /\ td[c].state = "done" /\ td[c].got = cellInit[c].handle
        /\ cb[c].state = "done" /\ cb[c].got = Null
        /\ cellState[c] = "freed"

\* C9: the cache destructor never invokes cusparseDestroy on a null handle: on
\* a cell the callback has emptied its exchange yields null, and it then
\* deletes the cell and invokes no cusparseDestroy.
C9_NoNullDestroy ==
    /\ [](hDestroy[Null] = 0)
    /\ [][\A t \in Threads :
             LET k == loc[t].key
                 c == mapper[t][k]
             IN /\ \A x \in DOMAIN mapper[t] :
                      (pc[t] = "drain" /\ loc[t].key = NoCtx /\ loc'[t].key = x
                          /\ Fired(mapper[t][x]))
                         => loc'[t].got = Null
                /\ (pc[t] = "drain" /\ k # NoCtx /\ loc'[t].key = NoCtx
                          /\ loc[t].got = Null)
                         => /\ cellState[c] = "alloc" /\ cellState'[c] = "freed"
                            /\ hDestroy' = hDestroy]_vars

\* The destructor met a cell the callback had emptied and deleted it.
C9_Witness ==
    \E c \in Installed :
        /\ td[c].state = "done" /\ td[c].got = Null
        /\ cb[c].got = cellInit[c].handle
        /\ cellState[c] = "freed"
        /\ hDestroy[cellInit[c].handle] = 1

\* C10: every cell get_handle allocated is freed exactly once: once every
\* thread's cache destructor and every registered callback have run, no cell
\* is still allocated (and none was deleted twice).
C10_NoCellLeft ==
    (/\ \A t \in Threads : pc[t] = "exited"
     /\ \A c \in Installed : cb[c].state = "done")
        => /\ \A c \in Installed : cellState[c] = "freed"
           /\ ~proc.doubleFree

\* A step that destroys thread t's scoped handler.
HandlerDestroyed(t) == sc[t].placed # NoPi /\ sc'[t].placed = NoPi

\* C11 as stated: every destruction of the handler by the host task comes
\* after a completed stream synchronisation.
C11_AlwaysSyncedBeforeDestroy ==
    [][\A t \in Threads :
          HandlerDestroyed(t) => (ret[t].op = "wait_stream" /\ ~ret[t].threw)]_vars

\* C11 amended: in a host task get_handle runs only while the handler exists
\* and before wait_stream, wait_stream runs with the handler alive and no
\* get_handle in progress, and the handler is destroyed either after a completed
\* wait_stream or by the unwinding of an exception of f or of wait_stream.
C11_TaskOrder ==
    [][\A t \in Threads :
          /\ (pc[t] \in {"hit", "create"} \/ pc'[t] \in {"hit", "create"})
                => /\ sc[t].placed # NoPi
                   /\ cur[t] = Native(sc[t].placed)
                   /\ ret[t].op # "wait_stream"
          /\ (ret'[t].op = "wait_stream" /\ ret[t].op # "wait_stream")
                => /\ pc[t] = "scoped"
                   /\ sc[t].placed # NoPi /\ sc'[t] = sc[t]
          /\ HandlerDestroyed(t)
                => \/ ret[t].op = "wait_stream" /\ ~ret[t].threw
                   \/ pc[t] = "unwind" /\ ret[t].threw]_vars

\* The host task has obtained a handle through f and completed wait_stream
\* with the handler still alive.
C11_Witness ==
    \E t \in Threads :
        /\ pc[t] = "synced"
        /\ ret[t].op = "wait_stream" /\ ~ret[t].threw
        /\ sc[t].placed # NoPi
        /\ Key(t) \in DOMAIN mapper[t]
        /\ Live(cellVal[mapper[t][Key(t)]])

\* The teardown of thread t's cache is over: the destructor has returned, or
\* an error of cusparseDestroy has left it.
TeardownOver(t) == pc[t] = "exited" \/ (pc[t] = "drain" /\ proc.aborted)

\* C12: when the teardown of a cache is over, with or without a failing
\* cusparseDestroy, every entry of the map has been through the exchange of the
\* drain loop: its pointer was reset or its cell was exchanged by the destructor.
C12_DrainReachesEveryEntry ==
    \A t \in Threads :
        TeardownOver(t)
            => \A k \in DOMAIN mapper[t] :
                  mapper[t][k] = Null \/ td[mapper[t][k]].state # "none"

\* Thread t's last get_handle call failed.
FailedGetHandle(t) == ret[t].op = "get_handle" /\ ret[t].threw

\* C13 as stated: after a failed get_handle every entry of the thread's cache
\* has a cell that holds a handle get_handle can return.
C13_EveryEntryHoldsHandle ==
    \A t \in Threads :
        FailedGetHandle(t)
            => \A k \in DOMAIN mapper[t] :
                  /\ mapper[t][k] # Null
                  /\ cellState[mapper[t][k]] = "alloc"
                  /\ Live(cellVal[mapper[t][k]])

\* C13 amended: after a failed get_handle every entry of the thread's cache
\* points to an allocated cell that get_handle fully initialised (handle created
\* and given a stream, ContextCallback registered), and the cell holds either
\* that handle, live and created under the entry's context, or null because
\* ContextCallback has taken the handle.
C13_NoPartialEntry ==
    \A t \in Threads :
        FailedGetHandle(t)
            => \A k \in DOMAIN mapper[t] :
                  LET c == mapper[t][k]
                  IN /\ c # Null
                     /\ cellState[c] = "alloc"
                     /\ cellInit[c].handle \in 1..nCreated
                     /\ cellInit[c].key = k
                     /\ cb[c].state # "none"
                     /\ \/ cellVal[c] = Null /\ Fired(c)
                        \/ /\ cellVal[c] = cellInit[c].handle
                           /\ Live(cellVal[c])
                           /\ hCtx[cellVal[c]] = k
                           /\ hStream[cellVal[c]] \in Streams

\* A get_handle call has failed for a context with no entry while the cache
\* holds a usable entry for another context.
C13_Witness ==
    \E t \in Threads :
        /\ FailedGetHandle(t)
        /\ pc[t] = "scoped"
        /\ Key(t) \notin DOMAIN mapper[t]
        /\ \E k \in DOMAIN mapper[t] : Live(cellVal[mapper[t][k]])

\* The cells thread t's cache map points to.
CellsOf(t) == {mapper[t][k] : k \in DOMAIN mapper[t]} \ {Null}

\* The step changes thread t's own position in an operation.
StepOf(t) == pc'[t] # pc[t] \/ loc'[t] # loc[t]

\* C14: every cell in a thread's cache map was created by that thread, two
\* threads never share a cell, the handle get_handle returns on a thread was
\* created and cached by that thread, and a step that changes a thread's cache
\* map is a step of that thread's own get_handle or teardown.
C14_ThreadLocal ==
    /\ [](\A t \in Threads :
             /\ \A c \in CellsOf(t) : cellInit[c].owner = t
             /\ \A u \in Threads \ {t} : CellsOf(t) \cap CellsOf(u) = {})
    /\ [][\A t \in Threads :
             /\ Returns(t)
                   => \E c \in Cells : /\ cellInit'[c].owner = t
                                       /\ cellInit'[c].handle = ret'[t].handle
             /\ mapper'[t] # mapper[t]
                   => /\ StepOf(t)
                      /\ pc[t] \in {"scoped", "create", "drain"}
                      /\ \A u \in Threads \ {t} : ~StepOf(u) /\ mapper'[u] = mapper[u]]_vars

\* Both threads hold an entry for the same context, with different cells and
\* different live handles, and the second thread's last get_handle returned
\* its own cached handle.
C14_Witness ==
    /\ "k1" \in DOMAIN mapper["t1"] /\ "k1" \in DOMAIN mapper["t2"]
    /\ mapper["t1"]["k1"] # Null /\ mapper["t2"]["k1"] # Null
    /\ mapper["t1"]["k1"] # mapper["t2"]["k1"]
    /\ Live(cellVal[mapper["t1"]["k1"]]) /\ Live(cellVal[mapper["t2"]["k1"]])
    /\ cellVal[mapper["t1"]["k1"]] # cellVal[mapper["t2"]["k1"]]
    /\ ret["t2"].op = "get_handle" /\ ret["t2"].path = "hit"
    /\ ret["t2"].handle = cellVal[mapper["t2"]["k1"]]

\* index >= 2^31, read off the bits of the 64-bit value.
IndexAtLeast2p31(x) ==
    x[4] < 32768 /\ ~(x[4] = 0 /\ x[3] = 0 /\ x[2] < 32768)

\* -2^31 < index < 2^31, read off the bits of the 64-bit value.
MagnitudeBelow2p31(x) ==
    \/ x[4] = 0 /\ x[3] = 0 /\ x[2] < 32768
    \/ /\ x[4] = 65535 /\ x[3] = 65535 /\ x[2] >= 32768
       /\ ~(x[2] = 32768 /\ x[1] = 0)

\* C15: overflow_check never gets past an index >= 2^31 and so never returns
\* normally from a list that holds one (it throws the overflow error), whatever
\* the other indices are, the extreme values included; it throws only when some
\* index does not have magnitude below 2^31; and no step of it touches the
\* vendor library, so that no vendor call precedes the failure.
C15_OverflowCheck ==
    /\ chk.out \in {"running", "returned"}
          => \A i \in 1..Len(chk.args) :
                i < chk.pos => ~IndexAtLeast2p31(chk.args[i])
    /\ chk.out = "returned" => chk.pos = Len(chk.args) + 1
    /\ chk.out = "threw"
          => /\ chk.pos \in 1..Len(chk.args)
             /\ ~MagnitudeBelow2p31(chk.args[chk.pos])
    /\ chk.out # "idle" => nCreated = 0 /\ \A h \in Handles : hDestroy[h] = 0

\* overflow_check has gone past INT64_MIN and thrown on INT64_MAX.
C15_Witness ==
    /\ chk.out = "threw"
    /\ chk.args = <<INT64_MIN, INT64_MAX>>
    /\ chk.pos = 2

\* C16: a cell a cache entry under K points to holds null or a handle that has
\* not been destroyed and was created while K was the creating thread's active
\* context; no cell ever holds a handle cusparseDestroy has been invoked on.
C16_CellNullOrLive ==
    /\ \A t \in Threads : \A k \in DOMAIN mapper[t] :
          mapper[t][k] # Null
             => \/ cellVal[mapper[t][k]] = Null
                \/ /\ Live(cellVal[mapper[t][k]])
                   /\ hCtx[cellVal[mapper[t][k]]] = k
    /\ \A c \in Cells : cellVal[c] # Null => hDestroy[cellVal[c]] = 0

\* A cache with one entry whose cell was emptied and whose handle was destroyed
\* once, and another entry whose cell holds a live handle of its own context.
C16_Witness ==
    \E t \in Threads : \E k, j \in DOMAIN mapper[t] :
        /\ k # j /\ mapper[t][k] # Null /\ mapper[t][j] # Null
        /\ cellVal[mapper[t][k]] = Null
        /\ hDestroy[cellInit[mapper[t][k]].handle] = 1
        /\ Live(cellVal[mapper[t][j]])
        /\ hCtx[cellVal[mapper[t][j]]] = j

\* No PI context has been released, so no ContextCallback has been triggered.
NoRelease == \A p \in PiContexts : pState[p] # "released"

\* C17: while a handler exists the thread's active context is the context of
\* the handler's queue; as long as no context is released, a thread that
\* alternates handlers between contexts has one entry per context it has used,
\* each with its own cell and its own live handle created under that context,
\* and get_handle under a handler for Ki returns the handle stored under Ki,
\* adding no entry when one is there.
C17_TwoContexts ==
    /\ [](\A t \in Threads :
             /\ sc[t].placed # NoPi => cur[t] = Native(sc[t].placed)
             /\ (NoRelease /\ pc[t] \notin {"drain", "exited"})
                   => \A k \in DOMAIN mapper[t] :
                         /\ mapper[t][k] # Null
                         /\ Live(cellVal[mapper[t][k]])
                         /\ hCtx[cellVal[mapper[t][k]]] = k
                         /\ \A j \in DOMAIN mapper[t] \ {k} :
                               /\ mapper[t][j] # mapper[t][k]
                               /\ cellVal[mapper[t][j]] # cellVal[mapper[t][k]])
    /\ [][\A t \in Threads :
             (Returns(t) /\ NoRelease')
                => LET Ki == Native(sc[t].placed)
                   IN /\ Ki \in DOMAIN mapper'[t]
                      /\ ret'[t].handle = cellVal'[mapper'[t][Ki]]
                      /\ hCtx'[ret'[t].handle] = Ki
                      /\ ret'[t].path = "hit" => mapper'[t] = mapper[t]
                      /\ ret'[t].path = "create" => Ki \notin DOMAIN mapper[t]]_vars

\* After handlers on both contexts the cache has exactly two entries with two
\* distinct live handles, no other handle was created, and a later get_handle
\* under a handler for k1 has returned the handle stored under k1.
C17_Witness ==
    \E t \in Threads :
        /\ NoRelease
        /\ DOMAIN mapper[t] = {"k1", "k2"}
        /\ nCreated = 2
        /\ Live(cellVal[mapper[t]["k1"]]) /\ Live(cellVal[mapper[t]["k2"]])
        /\ cellVal[mapper[t]["k1"]] # cellVal[mapper[t]["k2"]]
        /\ pc[t] = "scoped" /\ Native(sc[t].placed) = "k1" /\ cur[t] = "k1"
        /\ ret[t].op = "get_handle" /\ ret[t].path = "hit"
        /\ ret[t].handle = cellVal[mapper[t]["k1"]]

\* A step of the ContextCallback registered for cell c.
CallbackStep(c) ==
    cb[c].state \in {"registered", "exchanged"} /\ cb'[c].state # cb[c].state

\* C18: a step of ContextCallback leaves every thread's cache map as it was and
\* touches no cell but its own: the first step empties its cell by the exchange,
\* the second destroys the handle the exchange returned or, when it returned
\* null, deletes the cell.
C18_CallbackFrame ==
    [][\A c \in Cells :
          CallbackStep(c)
             => /\ mapper' = mapper
                /\ \A d \in Cells \ {c} :
                      cellVal'[d] = cellVal[d] /\ cellState'[d] = cellState[d]
                /\ cb[c].state = "registered"
                      => /\ cellVal'[c] = Null
                         /\ cellState' = cellState /\ hDestroy' = hDestroy
                /\ cb[c].state = "exchanged"
                      => /\ cellVal' = cellVal
                         /\ cb[c].got # Null
                               => /\ hDestroy'[cb[c].got] > hDestroy[cb[c].got]
                                  /\ cellState' = cellState
                         /\ cb[c].got = Null
                               => /\ cellState'[c] = "freed"
                                  /\ hDestroy' = hDestroy]_vars

\* ContextCallback has run to its end and destroyed the handle of a cell whose
\* creator is between operations and still has the cell in its map.
C18_Witness ==
    \E c \in Cells :
        /\ cb[c].state = "done" /\ cb[c].got # Null
        /\ pc[cellInit[c].owner] = "idle"
        /\ cellInit[c].key \in DOMAIN mapper[cellInit[c].owner]
        /\ mapper[cellInit[c].owner][cellInit[c].key] = c

\* The cache destructor, respectively ContextCallback, found cell c empty and
\* has finished its step on it.
TeardownSawNull(c) == td[c].state = "done" /\ td[c].got = Null
CallbackSawNull(c) == cb[c].state = "done" /\ cb[c].got = Null

\* C19: no load or exchange is made on a deleted cell, no cell is deleted
\* twice, and a deleted cell was deleted by the one party whose exchange returned
\* null, the other party having obtained the handle.
C19_NoUseAfterFree ==
    /\ ~proc.badDeref
    /\ ~proc.doubleFree
    /\ \A c \in Cells :
          cellState[c] = "freed"
             => \/ /\ TeardownSawNull(c)
                   /\ Fired(c) /\ cb[c].got = cellInit[c].handle
                \/ /\ CallbackSawNull(c)
                   /\ td[c].state # "none" /\ td[c].got = cellInit[c].handle

\* Two cells have been deleted, one by the cache destructor after the callback
\* took its handle, the other by the callback after the destructor took its
\* handle.
C19_Witness ==
    \E c, d \in Cells :
        /\ c # d
        /\ cellState[c] = "freed" /\ cellState[d] = "freed"
        /\ TeardownSawNull(c) /\ cb[c].got # Null
        /\ CallbackSawNull(d) /\ td[d].got # Null

\* C20: every handle cusparseCreate has returned is owned: it is the handle of
\* a cell that was installed in a cache with ContextCallback registered for it,
\* or cusparseDestroy has been invoked on it.
C20_CreatedHandleOwned ==
    \A h \in 1..nCreated :
        \/ \E c \in Cells : /\ cellInit[c].handle = h
                            /\ cellState[c] # "none"
                            /\ cb[c].state # "none"
        \/ hDestroy[h] >= 1

====
